---- MODULE Spec2Model ----
(***************************************************************************)
(* BuildUHT.py: the per-unit daily status simulator (unitdailystatus) and  *)
(* the script that builds the unit history table from the transaction log. *)
(*                                                                         *)
(* Calendar days are integers; a timestamp is [day, tod], tod the time of  *)
(* day in hours (0 = midnight).  A row of the date axis is the midnight of *)
(* its day.  A status is a record [tag, n]: 'S', 'U', NaN (no value), or a *)
(* number n (n > 0 days of credit remaining, -k = k days out of credit).   *)
(***************************************************************************)
EXTENDS Integers, Sequences, FiniteSets, TLC

\* ---------------------------------------------------------------- bounds
\* longest transaction log (rows) handed to the script or to one call
MaxEvents == 2
\* last calendar day on which an event may fall (days are 0..MaxDay)
MaxDay == 2
\* last day of the longest date axis a direct call is given
AxisEnd == 9
\* most calls of loadtransactionlog in one session
MaxCalls == 3

\* ------------------------------------------------------- program constants
DaysPerWeek == 7
UnlockCode == 5
TopUpCode == 3
NoUnlockHorizon == 365

\* --------------------------------------------------------------- the data
Units == {1, 2}
Days == 0..MaxDay
TimesOfDay == {0, 12}
\* installdate = "" (the default of unitdailystatus)
NoDate == -1

\* a topupvalue cell: a number of weeks, None, or text that is no number
Weeks(w) == [kind |-> "num", v |-> w]
None == [kind |-> "none", v |-> 0]
Malformed == [kind |-> "bad", v |-> 0]
\* a topupvalue cell after astype(float) turned None into nan
NanCell == [kind |-> "nan", v |-> 0]

S == [tag |-> "S", n |-> 0]
U == [tag |-> "U", n |-> 0]
NaN == [tag |-> "NaN", n |-> 0]
Num(x) == [tag |-> "num", n |-> x]

Timestamp(d, h) == [day |-> d, tod |-> h]
\* the rows of the transaction log after loading, renaming and topupvalues()
UnlockRows(us) ==
    [unit_id : us, timestamp : {Timestamp(d, h) : d \in Days, h \in TimesOfDay},
     function_code : {UnlockCode}, topupvalue : {None}]
TopUpRows(us, vals) ==
    [unit_id : us, timestamp : {Timestamp(d, 12) : d \in Days},
     function_code : {TopUpCode}, topupvalue : vals]
\* a row whose function code has no entry in valuedict keeps topupvalue None
OtherCodes == {1}
OtherRows(us) ==
    [unit_id : us, timestamp : {Timestamp(d, 12) : d \in Days},
     function_code : OtherCodes, topupvalue : {None}]
Logs(rows) == UNION {[1..n -> rows] : n \in 1..MaxEvents}

\* ---------------------------------------------------------------- helpers
Min(a, b) == IF a < b THEN a ELSE b
Max(a, b) == IF a > b THEN a ELSE b
SetMin(s) == CHOOSE x \in s : \A y \in s : x <= y

\* t1 <= t2 on timestamps
TsLeq(t1, t2) == t1.day < t2.day \/ (t1.day = t2.day /\ t1.tod <= t2.tod)
TsMin(ts) == CHOOSE t \in ts : \A o \in ts : TsLeq(t, o)
TsMax(ts) == CHOOSE t \in ts : \A o \in ts : TsLeq(o, t)
Stamps(log) == {log[i].timestamp : i \in 1..Len(log)}

\* dt.datetime(*ts.timetuple()[:3]): the midnight of the day of ts
dayofdatetime(ts, nextday) == IF nextday THEN ts.day + 1 ELSE ts.day

\* GroupOf with the whole log handed over instead of the unit's group
GroupOf_WholeLog(log, u) == log

\* translog.groupby('unit_id'): the rows of one unit, in log order
GroupOf(log, u) == SelectSeq(log, LAMBDA e : e.unit_id = u)
UnitIds(log) == {log[i].unit_id : i \in 1..Len(log)}
RECURSIVE SortedUnits(_)
SortedUnits(us) ==
    IF us = {} THEN <<>>
    ELSE LET m == SetMin(us) IN <<m>> \o SortedUnits(us \ {m})

\* CanCast with a cast that lets every cell through
CanCast_Tolerant(unittrans) == TRUE

\* unittrans.topupvalue.astype(float) raises on a cell that is no number
CanCast(unittrans) ==
    \A i \in 1..Len(unittrans) : unittrans[i].topupvalue.kind # "bad"

\* AsFloat with the weeks rewritten as days while casting
AsFloat_WeeksToDays(unittrans) ==
    [i \in 1..Len(unittrans) |->
        [unittrans[i] EXCEPT !.topupvalue =
            IF @.kind = "num" THEN Weeks(@.v * DaysPerWeek) ELSE NanCell]]

\* unittrans.topupvalue = unittrans.topupvalue.astype(float): the column of
\* the caller's frame is rewritten, None becomes nan, numbers stay
AsFloat(unittrans) ==
    [i \in 1..Len(unittrans) |->
        [unittrans[i] EXCEPT !.topupvalue =
            IF @.kind = "num" THEN @ ELSE NanCell]]

\* resample('d', how='sum'), NaN -> 0, left join on the axis, NaN -> 0
RECURSIVE DailyTotal(_, _)
DailyTotal(unittrans, d) ==
    IF unittrans = <<>> THEN 0
    ELSE LET e == Head(unittrans)
             v == IF e.timestamp.day = d /\ e.topupvalue.kind = "num"
                  THEN e.topupvalue.v ELSE 0
         IN v + DailyTotal(Tail(unittrans), d)

\* InstallDate with the installdate argument ignored
InstallDate_IgnoresArgument(unittrans, installarg) ==
    SetMin({t.day : t \in Stamps(unittrans)})

\* installdate: the argument, or the first day of the resampled history
InstallDate(unittrans, installarg) ==
    IF installarg = NoDate
    THEN SetMin({t.day : t \in Stamps(unittrans)})
    ELSE installarg

Unlocks(unittrans) == SelectSeq(unittrans, LAMBDA e : e.function_code = UnlockCode)

\* LoopUnlockDate with enddate itself as the bound when there is no unlock
LoopUnlockDate_AtEndDate(unittrans, enddate_) ==
    IF Len(Unlocks(unittrans)) > 0
    THEN dayofdatetime(Unlocks(unittrans)[1].timestamp, FALSE)
    ELSE enddate_

\* unlockdate of the loop bound: the day of the first unlock row in log
\* order (index[0]), or a day far after enddate
LoopUnlockDate(unittrans, enddate_) ==
    IF Len(Unlocks(unittrans)) > 0
    THEN dayofdatetime(Unlocks(unittrans)[1].timestamp, FALSE)
    ELSE enddate_ + NoUnlockHorizon

\* StatusBeforeLoop with 'U' only on the days after the unlock day
StatusBeforeLoop_AfterUnlockDay(unittrans, d, install, unlock) ==
    IF Len(Unlocks(unittrans)) > 0 /\ d > unlock THEN U
    ELSE IF d < install THEN S
    ELSE NaN

\* the unitstatus column before the loop: 'S' before installdate, then 'U'
\* from the loop's unlockdate on when the unit has an unlock row
StatusBeforeLoop(unittrans, d, install, unlock) ==
    IF Len(Unlocks(unittrans)) > 0 /\ d >= unlock THEN U
    ELSE IF d < install THEN S
    ELSE NaN

\* RowStep with the credit counter not reduced after a day in credit
RowStep_CreditNotReduced(credit, ooc, total) ==
    LET c == credit + total * DaysPerWeek
    IN IF c > 0
       THEN [status |-> Num(c), credit |-> c, ooc |-> 0]
       ELSE [status |-> Num(-ooc), credit |-> c, ooc |-> ooc + 1]

\* RowStep with the day's total added as days, not weeks
RowStep_WeeksAsDays(credit, ooc, total) ==
    LET c == credit + total
    IN IF c > 0
       THEN [status |-> Num(c), credit |-> c - 1, ooc |-> 0]
       ELSE [status |-> Num(-ooc), credit |-> c, ooc |-> ooc + 1]

\* RowStep with the streak counter not reset on a day in credit
RowStep_StreakNotReset(credit, ooc, total) ==
    LET c == credit + total * DaysPerWeek
    IN IF c > 0
       THEN [status |-> Num(c), credit |-> c - 1, ooc |-> ooc]
       ELSE [status |-> Num(-ooc), credit |-> c, ooc |-> ooc + 1]

\* RowStep with the streak counter not increased on a day out of credit
RowStep_StreakNotCounted(credit, ooc, total) ==
    LET c == credit + total * DaysPerWeek
    IN IF c > 0
       THEN [status |-> Num(c), credit |-> c - 1, ooc |-> 0]
       ELSE [status |-> Num(-ooc), credit |-> c, ooc |-> ooc]

\* RowStep with the streak counter increased before it is recorded
RowStep_StreakFromOne(credit, ooc, total) ==
    LET c == credit + total * DaysPerWeek
    IN IF c > 0
       THEN [status |-> Num(c), credit |-> c - 1, ooc |-> 0]
       ELSE [status |-> Num(-(ooc + 1)), credit |-> c, ooc |-> ooc + 1]

\* one row of the loop: [status written, credit carried, streak carried]
RowStep(credit, ooc, total) ==
    LET c == credit + total * DaysPerWeek
    IN IF c > 0
       THEN [status |-> Num(c), credit |-> c - 1, ooc |-> 0]
       ELSE [status |-> Num(-ooc), credit |-> c, ooc |-> ooc + 1]

\* FirstRow with the loop started at the top of the axis
FirstRow_AxisStart(startdate_, install) == startdate_

\* the first row the loop visits: the first axis day >= installdate
FirstRow(startdate_, install) == Max(startdate_, install)

\* the status the loop writes on day d when it starts on day first with
\* the counters credit and ooc
RECURSIVE LoopStatus(_, _, _, _, _)
LoopStatus(unittrans, first, d, credit, ooc) ==
    LET r == RowStep(credit, ooc, DailyTotal(unittrans, first))
    IN IF first = d THEN r.status
       ELSE LoopStatus(unittrans, first + 1, d, r.credit, r.ooc)

\* StatusAfterLoop with every row taken to be >= NaT when there is no unlock
StatusAfterLoop_NaTBeforeAll(unittrans, d, status) ==
    IF Len(Unlocks(unittrans)) = 0
       \/ TsLeq(TsMin(Stamps(Unlocks(unittrans))), Timestamp(d, 0))
    THEN U
    ELSE status

\* after the loop: rows >= index.min() of the unlock rows (a timestamp, not
\* truncated to its day) become 'U'; with no unlock row index.min() is NaT,
\* which is not np.nan and compares False with every row
StatusAfterLoop(unittrans, d, status) ==
    IF Len(Unlocks(unittrans)) > 0
       /\ TsLeq(TsMin(Stamps(Unlocks(unittrans))), Timestamp(d, 0))
    THEN U
    ELSE status

\* unitdailystatus(unittrans, startdate, enddate, installdate) as a function
\* of its arguments: the returned unitstatus column
unitdailystatus(unittrans, startdate_, enddate_, installarg_) ==
    LET cast == AsFloat(unittrans)
        inst == InstallDate(cast, installarg_)
        unl == LoopUnlockDate(cast, enddate_)
        first == FirstRow(startdate_, inst)
    IN [d \in startdate_..enddate_ |->
           [unitstatus |->
               StatusAfterLoop(cast, d,
                   IF d >= first /\ d < unl
                   THEN LoopStatus(cast, first, d, 0, 0)
                   ELSE StatusBeforeLoop(cast, d, inst, unl))]]

\* ----------------------------------------------------- loadtransactionlog
\* the list object that is the default of the droplist parameter, as created
\* when the function is defined
DefaultDroplist ==
    <<"Web Login", "E-payment Reference", "E-Payment Provider",
      "E-Payment Amount", "Error Detail", "Outgoing Message",
      "Unit Check Digit", "Gateway Number", "Scratch- card Serial Number",
      "Scratch-card PIN", "Timestamp", "Unit Id">>
\* the columns of the csv files
RawColumns ==
    {DefaultDroplist[i] : i \in 1..Len(DefaultDroplist)}
        \cup {"Success", "Function Code"}
\* the rows of the csv files, concatenated
RawRows == [unit_id : Units, success : {0, 1}]
RawLogs == UNION {[1..n -> RawRows] : n \in 1..MaxEvents}

\* translog.drop_duplicates(): the first of equal rows is kept
RECURSIVE DropDuplicates(_)
DropDuplicates(rows) ==
    IF rows = <<>> THEN <<>>
    ELSE LET front == DropDuplicates(SubSeq(rows, 1, Len(rows) - 1))
             last == rows[Len(rows)]
         IN IF \E i \in 1..Len(front) : front[i] = last
            THEN front ELSE Append(front, last)

\* for dropcol in droplist: translog.drop(dropcol, axis=1): a name that is
\* no column raises
RECURSIVE DropColumns(_, _)
DropColumns(columns, droplist) ==
    IF droplist = <<>> THEN [raised |-> FALSE, columns |-> columns]
    ELSE IF Head(droplist) \notin columns
         THEN [raised |-> TRUE, columns |-> columns]
         ELSE DropColumns(columns \ {Head(droplist)}, Tail(droplist))

\* the droplist object after line 81: droplist.append('Success') changes the
\* list it was handed, which for a call without droplist is the default
DroplistUsed(droplist, successonly) ==
    IF successonly THEN Append(droplist, "Success") ELSE droplist

\* loadtransactionlog(inputpath, successonly) on the csv rows raw, droplist
\* being the list object the parameter is bound to: the outcome, the frame
\* returned and the droplist object afterwards
loadtransactionlog(raw, successonly, droplist) ==
    LET deduped == DropDuplicates(raw)
        rows == IF successonly
                THEN SelectSeq(deduped, LAMBDA r : r.success = 1)
                ELSE deduped
        list == DroplistUsed(droplist, successonly)
        dropped == DropColumns(RawColumns \cup {"Unit ID", "timestamp"}, list)
    IN [outcome |-> IF dropped.raised THEN "raised" ELSE "returned",
        successonly |-> successonly,
        columns |-> IF dropped.raised THEN {} ELSE dropped.columns \ {"timestamp"},
        rows |-> IF dropped.raised THEN <<>> ELSE rows]

\* ------------------------------------------------------------------ state
VARIABLES
    translog,            \* the transaction log, a sequence of rows
    pc,                  \* position of the script / of the call
    startdate, enddate,  \* the date axis bounds
    unithistorytable,    \* [index: set of days, columns: unit -> day -> status]
    unitscomplete,
    groups,              \* units the groupby loop has still to yield
    unitID, unittrans,   \* the current group
    installarg,          \* the installdate argument of the call
    installdate, unlockdate,
    dailyhistory,        \* day -> [dailytopuptotal, unitstatus]
    index,               \* the row the loop is at
    dayscreditremaining, continuousdaysooc,
    calls,               \* calls of unitdailystatus made on the same unittrans
    firsthistory,        \* what the first of them returned
    rawlog,              \* the rows of the csv files
    droplist_default,    \* the default list object of loadtransactionlog
    loadcalls,           \* calls of loadtransactionlog made so far
    loaded               \* outcome of the latest call of loadtransactionlog

vars == <<translog, pc, startdate, enddate, unithistorytable, unitscomplete,
          groups, unitID, unittrans, installarg, installdate, unlockdate,
          dailyhistory, index, dayscreditremaining, continuousdaysooc,
          calls, firsthistory, rawlog, droplist_default, loadcalls, loaded>>

\* the loader's state
loadvars == <<rawlog, droplist_default, loadcalls, loaded>>
\* state outside the script and outside the running call
outervars == <<calls, firsthistory, rawlog, droplist_default, loadcalls, loaded>>
scriptvars == <<translog, startdate, enddate, unithistorytable, unitscomplete,
                groups, unitID>>
callvars == <<unittrans, installarg, installdate, unlockdate, dailyhistory,
              index, dayscreditremaining, continuousdaysooc>>

EmptyTable == [index |-> {}, columns |-> <<>>]
NoLoad == [outcome |-> "none", successonly |-> FALSE, columns |-> {}, rows |-> <<>>]
\* the loader's state where the loader is not looked at
NotLoading ==
    /\ rawlog = <<>>
    /\ droplist_default = DefaultDroplist
    /\ loadcalls = 0
    /\ loaded = NoLoad

\* the script, before line 241: translog is loaded
ScriptRows ==
    UnlockRows(Units) \cup OtherRows(Units)
        \cup TopUpRows(Units, {Weeks(1), Malformed})
Init ==
    /\ translog \in Logs(ScriptRows)
    /\ pc = "script"
    /\ startdate = 0 /\ enddate = 0
    /\ unithistorytable = EmptyTable
    /\ unitscomplete = 0
    /\ groups = <<>>
    /\ unitID = 0 /\ unittrans = <<>>
    /\ installarg = NoDate /\ installdate = 0 /\ unlockdate = 0
    /\ dailyhistory = <<>>
    /\ index = 0
    /\ dayscreditremaining = 0 /\ continuousdaysooc = 0
    /\ calls = 0 /\ firsthistory = <<>>
    /\ NotLoading

\* a direct call unitdailystatus(unittrans, startdate, enddate, installdate)
CallRows == UnlockRows({1}) \cup TopUpRows({1}, {Weeks(-1), Weeks(0), Weeks(1)})
InitCall ==
    /\ unittrans \in Logs(CallRows)
    /\ translog = unittrans
    /\ pc = "call"
    /\ startdate = 0
    /\ enddate \in {MaxDay + 1, AxisEnd}
    /\ installarg \in {NoDate} \cup 0..(MaxDay + 2)
    /\ unithistorytable = EmptyTable
    /\ unitscomplete = 0
    /\ groups = <<>>
    /\ unitID = 1
    /\ installdate = 0 /\ unlockdate = 0
    /\ dailyhistory = <<>>
    /\ index = 0
    /\ dayscreditremaining = 0 /\ continuousdaysooc = 0
    /\ calls = 0 /\ firsthistory = <<>>
    /\ NotLoading

\* ---------------------------------------------------------------- actions
\* EndDate with the last timestamp truncated to its own day
EndDate_SameDay(log) == dayofdatetime(TsMax(Stamps(log)), FALSE)

\* lines 241-244: the day of the first event, the day after the last event
StartDate(log) == dayofdatetime(TsMin(Stamps(log)), FALSE)
EndDate(log) == dayofdatetime(TsMax(Stamps(log)), TRUE)
ComputeDates ==
    /\ pc = "script"
    /\ startdate' = StartDate(translog)
    /\ enddate' = EndDate(translog)
    /\ unithistorytable' =
           [index |-> StartDate(translog)..EndDate(translog), columns |-> <<>>]
    /\ unitscomplete' = 0
    /\ groups' = SortedUnits(UnitIds(translog))
    /\ pc' = "for"
    /\ UNCHANGED <<translog, unitID>>
    /\ UNCHANGED callvars
    /\ UNCHANGED outervars

\* lines 257-262: the next group; unitdailystatus(unittrans,startdate,enddate)
ForUnit ==
    /\ pc = "for"
    /\ groups # <<>>
    /\ unitID' = Head(groups)
    /\ unittrans' = GroupOf(translog, Head(groups))
    /\ installarg' = NoDate
    /\ pc' = IF Len(GroupOf(translog, Head(groups))) > 0 THEN "call" ELSE "joined"
    /\ UNCHANGED <<translog, startdate, enddate, unithistorytable, unitscomplete,
                   groups>>
    /\ UNCHANGED <<installdate, unlockdate, dailyhistory, index,
                   dayscreditremaining, continuousdaysooc>>
    /\ UNCHANGED outervars

\* line 271: the loop is exhausted
Finish ==
    /\ pc = "for"
    /\ groups = <<>>
    /\ pc' = "done"
    /\ UNCHANGED scriptvars
    /\ UNCHANGED callvars
    /\ UNCHANGED outervars

\* lines 143-179: everything of unitdailystatus before the loop
Call ==
    /\ pc = "call"
    /\ IF ~CanCast(unittrans)
       THEN /\ pc' = "raised"
            /\ UNCHANGED <<installdate, unlockdate, dailyhistory, index,
                           dayscreditremaining, continuousdaysooc>>
            /\ UNCHANGED unittrans
       ELSE LET cast == AsFloat(unittrans)
                inst == InstallDate(cast, installarg)
                unl == LoopUnlockDate(cast, enddate)
            IN /\ unittrans' = cast
               /\ installdate' = inst
               /\ unlockdate' = unl
               /\ dailyhistory' =
                      [d \in startdate..enddate |->
                          [dailytopuptotal |-> DailyTotal(cast, d),
                           unitstatus |-> StatusBeforeLoop(cast, d, inst, unl)]]
               /\ dayscreditremaining' = 0
               /\ continuousdaysooc' = 0
               /\ index' = FirstRow(startdate, inst)
               /\ pc' = "loop"
    /\ calls' = IF calls = 0 THEN 1 ELSE calls
    /\ UNCHANGED scriptvars
    /\ UNCHANGED <<installarg, firsthistory>>
    /\ UNCHANGED loadvars

\* the last row the loop visits
LastRow == Min(enddate, unlockdate - 1)

\* lines 183-199: one iteration of the loop
LoopRow ==
    /\ pc = "loop"
    /\ index <= LastRow
    /\ LET r == RowStep(dayscreditremaining, continuousdaysooc,
                        dailyhistory[index].dailytopuptotal)
       IN /\ dailyhistory' = [dailyhistory EXCEPT ![index].unitstatus = r.status]
          /\ dayscreditremaining' = r.credit
          /\ continuousdaysooc' = r.ooc
    /\ index' = index + 1
    /\ UNCHANGED pc
    /\ UNCHANGED scriptvars
    /\ UNCHANGED <<unittrans, installarg, installdate, unlockdate>>
    /\ UNCHANGED outervars

\* lines 201-211: the overwrite after the loop, the column drop, the return
Return ==
    /\ pc = "loop"
    /\ index > LastRow
    /\ dailyhistory' =
           [d \in DOMAIN dailyhistory |->
               [unitstatus |->
                    StatusAfterLoop(unittrans, d, dailyhistory[d].unitstatus)]]
    /\ pc' = "returned"
    /\ UNCHANGED scriptvars
    /\ UNCHANGED <<unittrans, installarg, installdate, unlockdate, index,
                   dayscreditremaining, continuousdaysooc>>
    /\ UNCHANGED outervars

\* JoinColumn with the table's columns replaced by the new column
JoinColumn_Replaces(table, u, unithist) ==
    [table EXCEPT !.columns =
        [v \in {u} |->
            [d \in table.index |->
                IF d \in DOMAIN unithist THEN unithist[d].unitstatus ELSE NaN]]]

\* line 263: left join of the unit's history as the column unitID
JoinColumn(table, u, unithist) ==
    [table EXCEPT !.columns =
        [v \in DOMAIN table.columns \cup {u} |->
            IF v = u
            THEN [d \in table.index |->
                     IF d \in DOMAIN unithist THEN unithist[d].unitstatus ELSE NaN]
            ELSE table.columns[v]]]

\* lines 263-269: join, count, next group
Join ==
    /\ pc \in {"returned", "joined"}
    /\ groups # <<>>
    /\ unithistorytable' =
           IF pc = "returned"
           THEN JoinColumn(unithistorytable, unitID, dailyhistory)
           ELSE unithistorytable
    /\ unitscomplete' = unitscomplete + 1
    /\ groups' = Tail(groups)
    /\ pc' = "for"
    /\ UNCHANGED <<translog, startdate, enddate, unitID>>
    /\ UNCHANGED callvars
    /\ UNCHANGED outervars

\* an exception of unitdailystatus is caught nowhere: the script ends
Abort ==
    /\ pc = "raised"
    /\ groups # <<>>
    /\ pc' = "aborted"
    /\ UNCHANGED scriptvars
    /\ UNCHANGED callvars
    /\ UNCHANGED outervars

Next == ComputeDates \/ ForUnit \/ Finish \/ Call \/ LoopRow \/ Return \/ Join \/ Abort
Spec == Init /\ [][Next]_vars

NextCall == Call \/ LoopRow \/ Return
SpecCall == InitCall /\ [][NextCall]_vars

\* a second call unitdailystatus(unittrans, startdate, enddate, installdate)
\* with the same objects as arguments, after the first has returned
CallAgain ==
    /\ pc = "returned"
    /\ groups = <<>>
    /\ calls = 1
    /\ calls' = 2
    /\ firsthistory' = dailyhistory
    /\ pc' = "call"
    /\ UNCHANGED scriptvars
    /\ UNCHANGED callvars
    /\ UNCHANGED loadvars

NextTwice == Call \/ LoopRow \/ Return \/ CallAgain
SpecTwice == InitCall /\ [][NextTwice]_vars

\* the function has just been defined; the csv files are on disk
InitLoad ==
    /\ rawlog \in RawLogs
    /\ droplist_default = DefaultDroplist
    /\ loadcalls = 0
    /\ loaded = NoLoad
    /\ translog = <<>>
    /\ pc = "load"
    /\ startdate = 0 /\ enddate = 0
    /\ unithistorytable = EmptyTable
    /\ unitscomplete = 0
    /\ groups = <<>>
    /\ unitID = 0 /\ unittrans = <<>>
    /\ installarg = NoDate /\ installdate = 0 /\ unlockdate = 0
    /\ dailyhistory = <<>>
    /\ index = 0
    /\ dayscreditremaining = 0 /\ continuousdaysooc = 0
    /\ calls = 0 /\ firsthistory = <<>>

\* lines 30-93: a call loadtransactionlog(inputpath, successonly) that
\* passes no droplist
LoadCall(successonly) ==
    /\ pc = "load"
    /\ loadcalls < MaxCalls
    /\ loaded' = loadtransactionlog(rawlog, successonly, droplist_default)
    /\ droplist_default' = DroplistUsed(droplist_default, successonly)
    /\ loadcalls' = loadcalls + 1
    /\ UNCHANGED <<rawlog, pc, calls, firsthistory>>
    /\ UNCHANGED scriptvars
    /\ UNCHANGED callvars

NextLoad == \E successonly \in BOOLEAN : LoadCall(successonly)
SpecLoad == InitLoad /\ [][NextLoad]_vars

\* ----------------------------------------------------------------- claims
\* what the claims read off a finished call
Returned == pc = "returned"
Status(d) == dailyhistory[d].unitstatus
HasUnlock == \E i \in 1..Len(unittrans) : unittrans[i].function_code = UnlockCode
\* the calendar day of the earliest-timestamped unlock event
EarliestUnlockDay ==
    LET ts == {unittrans[i].timestamp :
                  i \in {j \in 1..Len(unittrans) :
                            unittrans[j].function_code = UnlockCode}}
        t == CHOOSE t \in ts : \A o \in ts : TsLeq(t, o)
    IN t.day
BeforeUnlock(d) == ~HasUnlock \/ d < EarliestUnlockDay
FirstEventDay ==
    LET ds == {unittrans[i].timestamp.day : i \in 1..Len(unittrans)}
    IN CHOOSE d \in ds : \A o \in ds : d <= o
\* installDate as the claims define it
ClaimedInstallDate == IF installarg = NoDate THEN FirstEventDay ELSE installarg
\* sum of the top-up values of the unit's events on day d
RECURSIVE TopUpSum(_, _)
TopUpSum(i, d) ==
    IF i = 0 THEN 0
    ELSE TopUpSum(i - 1, d)
         + (IF unittrans[i].timestamp.day = d /\ unittrans[i].topupvalue.kind = "num"
            THEN unittrans[i].topupvalue.v ELSE 0)
ZeroTopUp(d) == TopUpSum(Len(unittrans), d) = 0
InCredit(d) == Status(d).tag = "num" /\ Status(d).n > 0
OutOfCredit(d) == Status(d).tag = "num" /\ Status(d).n <= 0

\* C1 (P4, unlock override): once a call has returned for a unit with an
\* unlock event, every axis day on or after the calendar day of its
\* earliest-timestamped unlock event has status 'U'.
C1_UnlockOverride ==
    Returned /\ HasUnlock =>
        \A d \in DOMAIN dailyhistory : d >= EarliestUnlockDay => Status(d) = U

\* C2 (P1, pre-install) as claimed: every axis day strictly before
\* installDate (default first event day, or the override) has status 'S'.
C2_PreInstallStock ==
    Returned =>
        \A d \in DOMAIN dailyhistory : d < ClaimedInstallDate => Status(d) = S

\* C2 amended: every axis day strictly before installDate and strictly
\* before the day of the unit's earliest unlock event (if any) has status 'S'.
C2_PreInstallStockBeforeUnlock ==
    Returned =>
        \A d \in DOMAIN dailyhistory :
            d < ClaimedInstallDate /\ BeforeUnlock(d) => Status(d) = S

\* C2 witness: an override later than a top-up; the top-up's day is Stock
C2_Witness ==
    /\ Returned
    /\ installarg # NoDate
    /\ \E i \in 1..Len(unittrans) :
          /\ unittrans[i].function_code = TopUpCode
          /\ unittrans[i].topupvalue = Weeks(1)
          /\ unittrans[i].timestamp.day < installarg
          /\ unittrans[i].timestamp.day \in DOMAIN dailyhistory
          /\ Status(unittrans[i].timestamp.day) = S

\* C3 (P2, decrement law): a simulated day d with n > 0 days of credit,
\* followed on the axis by a day d+1 with zero top-up total and before any
\* unlock day, gives n-1 on d+1 when n-1 > 0 and OutOfCredit(0) otherwise.
C3_DecrementLaw ==
    Returned =>
        \A d \in DOMAIN dailyhistory :
            /\ d + 1 \in DOMAIN dailyhistory
            /\ d >= ClaimedInstallDate
            /\ InCredit(d)
            /\ ZeroTopUp(d + 1)
            /\ BeforeUnlock(d + 1)
            => Status(d + 1) = IF Status(d).n - 1 > 0 THEN Num(Status(d).n - 1)
                               ELSE Num(0)

\* C3 witness: credit runs out after an earlier out-of-credit streak
C3_Witness ==
    /\ Returned
    /\ \E d \in DOMAIN dailyhistory :
          /\ d + 2 \in DOMAIN dailyhistory /\ d - 7 \in DOMAIN dailyhistory
          /\ Status(d - 7) = Num(0)
          /\ Status(d) = Num(2) /\ ZeroTopUp(d + 1) /\ ZeroTopUp(d + 2)
          /\ Status(d + 1) = Num(1) /\ Status(d + 2) = Num(0)

\* C4 (P3, streak growth): a simulated day d with status OutOfCredit(k),
\* stored -k, followed on the axis by a day d+1 with zero top-up total and
\* before any unlock day, gives OutOfCredit(k+1) on d+1.
C4_StreakGrowth ==
    Returned =>
        \A d \in DOMAIN dailyhistory :
            /\ d + 1 \in DOMAIN dailyhistory
            /\ d >= ClaimedInstallDate
            /\ OutOfCredit(d)
            /\ ZeroTopUp(d + 1)
            /\ BeforeUnlock(d + 1)
            => Status(d + 1) = Num(Status(d).n - 1)

\* C4 witness: a streak growing from 0 over three days
C4_Witness ==
    /\ Returned
    /\ \E d \in DOMAIN dailyhistory :
          /\ d + 2 \in DOMAIN dailyhistory
          /\ Status(d) = Num(0) /\ Status(d + 1) = Num(-1) /\ Status(d + 2) = Num(-2)

\* the unit's only event is a top-up of w >= 1 weeks on day 0, its install day
SingleTopUp ==
    /\ Len(unittrans) = 1
    /\ unittrans[1].function_code = TopUpCode
    /\ unittrans[1].topupvalue.kind = "num" /\ unittrans[1].topupvalue.v >= 1
    /\ unittrans[1].timestamp.day = 0
    /\ startdate = 0
    /\ ClaimedInstallDate = 0

\* C5 (single top-up trace): with one top-up of w >= 1 weeks on day 0, the
\* install day, and nothing else, day i has status 7w - i for i < 7w and
\* -(i - 7w) from day 7w on: the first exhausted day shows exactly 0.
C5_SingleTopUpTrace ==
    Returned /\ SingleTopUp =>
        LET w == unittrans[1].topupvalue.v
        IN \A i \in DOMAIN dailyhistory :
              Status(i) = IF i < 7 * w THEN Num(7 * w - i) ELSE Num(-(i - 7 * w))

\* C5 witness: the w = 1 trace 7,6,5,4,3,2,1,0,-1,-2 on days 0..9
C5_Witness ==
    /\ Returned /\ SingleTopUp
    /\ unittrans[1].topupvalue.v = 1
    /\ DOMAIN dailyhistory = 0..9
    /\ Status(0) = Num(7) /\ Status(6) = Num(1) /\ Status(7) = Num(0)
    /\ Status(8) = Num(-1) /\ Status(9) = Num(-2)

\* what the claims read off the script
Columns == unithistorytable.columns
EventDays == {translog[i].timestamp.day : i \in 1..Len(translog)}
FirstFeedDay == CHOOSE d \in EventDays : \A o \in EventDays : d <= o
LastFeedDay == CHOOSE d \in EventDays : \A o \in EventDays : d >= o
AxisBuilt == pc \notin {"script", "call"}
UnitsWithEvents == {u \in Units : \E i \in 1..Len(translog) : translog[i].unit_id = u}
EventsOf(u) == SelectSeq(translog, LAMBDA e : e.unit_id = u)
\* units whose simulation fails: a top-up value that is no number
FailingUnits ==
    {u \in Units : \E i \in 1..Len(translog) :
        translog[i].unit_id = u /\ translog[i].topupvalue.kind = "bad"}
Ended == pc \in {"done", "aborted"}

\* C6 (master date axis) as claimed: the table has exactly the rows from the
\* day of the earliest event through the day containing the latest event.
C6_AxisFirstToLastEventDay ==
    AxisBuilt => unithistorytable.index = FirstFeedDay..LastFeedDay

\* C6 amended: the table has exactly the rows from the day of the earliest
\* event through the day after the day containing the latest event.
C6_AxisThroughDayAfterLastEvent ==
    AxisBuilt => unithistorytable.index = FirstFeedDay..(LastFeedDay + 1)

\* C6 witness: a finished table whose events span three days at odd hours
C6_Witness ==
    /\ pc = "done"
    /\ FirstFeedDay = 0 /\ LastFeedDay = 2
    /\ \A i \in 1..Len(translog) : translog[i].timestamp.tod # 0
    /\ unithistorytable.index = 0..3

\* C7 (total coverage): a returned history holds a status other than NaN for
\* every day of [startdate, enddate], and no cell of a column joined into
\* the table is NaN.
C7_TotalCoverage ==
    /\ Returned =>
          /\ DOMAIN dailyhistory = startdate..enddate
          /\ \A d \in startdate..enddate : Status(d).tag \in {"S", "U", "num"}
    /\ \A u \in DOMAIN Columns :
          /\ DOMAIN Columns[u] = unithistorytable.index
          /\ \A d \in unithistorytable.index : Columns[u][d].tag \in {"S", "U", "num"}

\* C7 witness: a history with Stock, numeric and Unlocked days, the unlock
\* rows out of timestamp order, the install date overridden
C7_Witness ==
    /\ Returned
    /\ installarg # NoDate
    /\ Len(Unlocks(unittrans)) = 2
    /\ ~TsLeq(unittrans[1].timestamp, unittrans[2].timestamp)
    /\ \E a, b, c \in DOMAIN dailyhistory :
          Status(a) = S /\ Status(b).tag = "num" /\ Status(c) = U

\* C8 (P5, column set): when the script has processed the whole log, the
\* columns of the table are exactly the units with at least one event.
C8_ColumnSet ==
    pc = "done" => DOMAIN Columns = UnitsWithEvents

\* C8 witness: a finished table with a column for unit 1 and none for unit 2
C8_Witness ==
    /\ pc = "done"
    /\ DOMAIN Columns = {1}
    /\ 2 \in Units

\* C8 witness of the other case: both units have events and a column each
C8_WitnessBoth == pc = "done" /\ DOMAIN Columns = {1, 2}

\* C9 (failure isolation) as claimed: a failing simulation does not abort the
\* build, and every unit with events whose simulation does not fail gets
\* its column.
C9_FailureIsolation ==
    Ended =>
        /\ pc = "done"
        /\ DOMAIN Columns = UnitsWithEvents \ FailingUnits

\* C9 amended: a failing simulation aborts the build at that unit: the
\* units processed before it keep their columns, the failing unit and
\* every unit after it get none; without a failing unit the build finishes.
C9_FailureAborts ==
    Ended =>
        IF FailingUnits = {}
        THEN pc = "done"
        ELSE LET f == CHOOSE u \in FailingUnits : \A o \in FailingUnits : u <= o
             IN /\ pc = "aborted"
                /\ unitID = f
                /\ DOMAIN Columns = {u \in UnitsWithEvents : u < f}

\* C9 witness: the build aborted at unit 2 after unit 1 got its column
C9_Witness ==
    /\ pc = "aborted"
    /\ FailingUnits = {2}
    /\ DOMAIN Columns = {1}

\* C9 witness of the claimed loss: unit 2 is well-formed and has no column
C9_WitnessLost ==
    /\ pc = "aborted"
    /\ FailingUnits = {1}
    /\ 2 \in UnitsWithEvents /\ 2 \notin DOMAIN Columns

\* C10 (no cross-unit dependency): every column of the finished table is the
\* history computed from that unit's own events, startdate and enddate
\* alone, with both counters starting at 0.
C10_ColumnFromOwnEvents ==
    pc = "done" =>
        \A u \in DOMAIN Columns :
            \A d \in unithistorytable.index :
                Columns[u][d] =
                    unitdailystatus(EventsOf(u), startdate, enddate, NoDate)[d].unitstatus

\* C10 witness: two units in one table, the second simulated after the
\* first left non-zero counters behind, with different histories
C10_Witness ==
    /\ pc = "done"
    /\ DOMAIN Columns = {1, 2}
    /\ Columns[1] # Columns[2]
    /\ \E d \in unithistorytable.index : Columns[1][d].tag = "num" /\ Columns[1][d].n > 0
    /\ \E d \in unithistorytable.index : Columns[2][d] = Num(0)

\* C11 (P6, determinism): a second call with the same unittrans, startdate,
\* enddate and installdate returns the history the first call returned,
\* although the first call rewrote the topupvalue column.
C11_SecondCallSameHistory ==
    pc = "returned" /\ calls = 2 => dailyhistory = firsthistory

\* C11 witness: a second call returned; the first had rewritten a None cell
\* next to a top-up of one week that gave days in credit
C11_Witness ==
    /\ pc = "returned" /\ calls = 2
    /\ \E i, j \in 1..Len(unittrans) :
          /\ translog[i].topupvalue = None /\ unittrans[i].topupvalue = NanCell
          /\ unittrans[j].topupvalue = Weeks(1)
    /\ \E d \in DOMAIN dailyhistory : Status(d) = Num(7)

\* the days on which the unit has an unlock event
UnlockDays ==
    {unittrans[i].timestamp.day :
        i \in {j \in 1..Len(unittrans) : unittrans[j].function_code = UnlockCode}}
\* the unit has no top-up event before day u
NoTopUpBefore(u) ==
    \A i \in 1..Len(unittrans) :
        unittrans[i].function_code = TopUpCode => unittrans[i].timestamp.day >= u
\* OutOfCredit(i) on every axis day i before u (the first axis day counted
\* as day 0), Unlocked from day u on
StreakThenUnlocked(u) ==
    \A d \in DOMAIN dailyhistory :
        Status(d) = IF d < u THEN Num(-(d - startdate)) ELSE U

\* C12 (unlock with no credit) as claimed: a unit with an unlock event on
\* day u and no top-up before day u has OutOfCredit(i) on every axis day i
\* before u and Unlocked on every day >= u.
C12_UnlockWithNoCredit ==
    Returned /\ HasUnlock /\ NoTopUpBefore(EarliestUnlockDay) =>
        StreakThenUnlocked(EarliestUnlockDay)

\* C12 amended: the same, for a unit whose unlock events all fall on day u
\* and whose installDate is on or before the first axis day.
C12_UnlockWithNoCreditInstalled ==
    /\ Returned /\ HasUnlock /\ NoTopUpBefore(EarliestUnlockDay)
    /\ UnlockDays = {EarliestUnlockDay}
    /\ ClaimedInstallDate <= startdate
    => StreakThenUnlocked(EarliestUnlockDay)

\* C12 witness: installed on day 0, unlocked at noon of day 2, no top-up
C12_Witness ==
    /\ Returned
    /\ installarg = 0 /\ startdate = 0
    /\ Len(unittrans) = 1
    /\ unittrans[1].function_code = UnlockCode
    /\ unittrans[1].timestamp = Timestamp(2, 12)
    /\ Status(0) = Num(0) /\ Status(1) = Num(-1)
    /\ Status(2) = U /\ Status(3) = U

\* C13 (Unlocked only after unlock): a day of a returned history is 'U' only
\* if the unit has an unlock event and the day is on or after the day of its
\* earliest unlock event; without an unlock event the loop runs through
\* enddate and every axis day from installDate on has a numeric status.
C13_UnlockedOnlyAfterUnlock ==
    Returned =>
        /\ \A d \in DOMAIN dailyhistory :
              Status(d) = U => HasUnlock /\ d >= EarliestUnlockDay
        /\ ~HasUnlock =>
              /\ index > enddate
              /\ \A d \in DOMAIN dailyhistory :
                    d >= ClaimedInstallDate => Status(d).tag = "num"

\* C13 witness: no unlock event, the last day of the long axis is simulated
C13_Witness ==
    /\ Returned /\ ~HasUnlock
    /\ enddate = AxisEnd
    /\ Status(enddate - 1) = Num(1) /\ Status(enddate) = Num(0)

\* C13 witness of the other case: 'U' from the unlock day, a number before
C13_WitnessUnlocked ==
    /\ Returned /\ HasUnlock
    /\ EarliestUnlockDay - 1 \in DOMAIN dailyhistory
    /\ Status(EarliestUnlockDay - 1).tag = "num"
    /\ Status(EarliestUnlockDay) = U

\* sum of the top-up values of the events of the list l on day d
RECURSIVE ListTopUpSum(_, _, _)
ListTopUpSum(l, i, d) ==
    IF i = 0 THEN 0
    ELSE ListTopUpSum(l, i - 1, d)
         + (IF l[i].timestamp.day = d /\ l[i].topupvalue.kind = "num"
            THEN l[i].topupvalue.v ELSE 0)
UnlockIndices(l) == {i \in 1..Len(l) : l[i].function_code = UnlockCode}
ListFirstDay(l) ==
    LET ds == {l[i].timestamp.day : i \in 1..Len(l)}
    IN CHOOSE d \in ds : \A o \in ds : d <= o
\* l has the per-day top-up totals, the install date and the unlock events
\* of the unit's event list
SameTotalsInstallUnlocks(l) ==
    /\ \A d \in Days : ListTopUpSum(l, Len(l), d) = TopUpSum(Len(unittrans), d)
    /\ installarg = NoDate => ListFirstDay(l) = FirstEventDay
    /\ Cardinality(UnlockIndices(l)) = Cardinality(UnlockIndices(unittrans))
    /\ {l[i].timestamp : i \in UnlockIndices(l)}
           = {unittrans[i].timestamp : i \in UnlockIndices(unittrans)}
\* the unlock events of l are also in the order of the unit's event list
SameUnlockOrder(l) ==
    LET a == SelectSeq(l, LAMBDA e : e.function_code = UnlockCode)
        b == SelectSeq(unittrans, LAMBDA e : e.function_code = UnlockCode)
    IN [i \in 1..Len(a) |-> a[i].timestamp] = [i \in 1..Len(b) |-> b[i].timestamp]
SameHistory(l) ==
    \A d \in DOMAIN dailyhistory :
        unitdailystatus(l, startdate, enddate, installarg)[d].unitstatus = Status(d)

\* C14 (same-day summation, order independence): every event list with the
\* per-day top-up totals, the install date and the unlock events of the
\* unit's list gives the history the call returned, whatever the order of
\* its events and however a day's total is split across events.
C14_OrderIndependence ==
    Returned =>
        \A l \in Logs(CallRows) : SameTotalsInstallUnlocks(l) => SameHistory(l)

\* C14, the part the code keeps: the same when the unlock events of the two
\* lists are also in the same order
C14_OrderIndependenceOfTopUps ==
    Returned =>
        \A l \in Logs(CallRows) :
            SameTotalsInstallUnlocks(l) /\ SameUnlockOrder(l) => SameHistory(l)

\* C15 (streak meaning): on a simulated day with status OutOfCredit(k),
\* k >= 1 means the previous day has OutOfCredit(k-1), and k = 0 on the
\* first out-of-credit day after a day in credit and on an install day
\* without credit.
C15_StreakMeaning ==
    Returned =>
        \A d \in DOMAIN dailyhistory :
            OutOfCredit(d) =>
                /\ Status(d).n <= -1 =>
                      /\ d - 1 \in DOMAIN dailyhistory
                      /\ Status(d - 1) = Num(Status(d).n + 1)
                /\ (d - 1 \in DOMAIN dailyhistory /\ InCredit(d - 1)) => Status(d) = Num(0)
                /\ d = ClaimedInstallDate => Status(d) = Num(0)

\* C15 witness: a streak 0, -1 from the install day, then a week of credit,
\* then the streak starts again at 0
C15_Witness ==
    /\ Returned
    /\ ClaimedInstallDate = 0 /\ startdate = 0
    /\ DOMAIN dailyhistory = 0..9
    /\ Status(0) = Num(0) /\ Status(1) = Num(-1)
    /\ Status(2) = Num(7) /\ Status(8) = Num(1) /\ Status(9) = Num(0)

\* every top-up value of the unit is a whole number of weeks >= 0
NonNegativeWeeks ==
    \A i \in 1..Len(unittrans) :
        unittrans[i].topupvalue.kind = "num" => unittrans[i].topupvalue.v >= 0
\* the days the loop has simulated so far
SimulatedDays ==
    {d \in DOMAIN dailyhistory :
        d >= ClaimedInstallDate /\ d < index}
RECURSIVE TopUpSumOver(_)
TopUpSumOver(ds) ==
    IF ds = {} THEN 0
    ELSE LET d == CHOOSE x \in ds : TRUE
         IN TopUpSum(Len(unittrans), d) + TopUpSumOver(ds \ {d})

\* C16 (credit conservation): with non-negative whole weeks, after every
\* simulated day the carried credit is >= 0 and the number of simulated days
\* with a CreditRemaining status plus the carried credit is 7 times the sum
\* of the top-up totals of the simulated days.
C16_CreditConservation ==
    pc = "loop" /\ NonNegativeWeeks =>
        /\ dayscreditremaining >= 0
        /\ Cardinality({d \in SimulatedDays : InCredit(d)}) + dayscreditremaining
               = 7 * TopUpSumOver(SimulatedDays)

\* C16 witness: one week bought, four days of it used, three carried
C16_Witness ==
    /\ pc = "loop" /\ NonNegativeWeeks
    /\ TopUpSumOver(SimulatedDays) = 1
    /\ Cardinality({d \in SimulatedDays : InCredit(d)}) = 4
    /\ dayscreditremaining = 3

\* C16 witness of the whole week: seven days in credit, nothing carried
C16_WitnessWeek ==
    /\ pc = "loop" /\ NonNegativeWeeks
    /\ TopUpSumOver(SimulatedDays) = 1
    /\ Cardinality({d \in SimulatedDays : InCredit(d)}) = 7
    /\ dayscreditremaining = 0

\* day d is simulated and out of credit, day d+1 is on the axis, before any
\* unlock day, and has a top-up total > 0
ToppedUpAfterStreak(d) ==
    /\ d + 1 \in DOMAIN dailyhistory
    /\ d >= ClaimedInstallDate
    /\ OutOfCredit(d)
    /\ BeforeUnlock(d + 1)
    /\ TopUpSum(Len(unittrans), d + 1) > 0
\* no simulated day up to d has a negative top-up total
NoNegativeTotalUpTo(d) ==
    \A e \in DOMAIN dailyhistory :
        e >= ClaimedInstallDate /\ e <= d => TopUpSum(Len(unittrans), e) >= 0

\* C17 (top-up restores credit) as claimed: an out-of-credit day followed by
\* a day with a top-up total of w > 0 weeks gives CreditRemaining(7w) on that
\* day, whatever the earlier top-up values were.
C17_TopUpRestoresCredit ==
    Returned =>
        \A d \in DOMAIN dailyhistory :
            ToppedUpAfterStreak(d) =>
                Status(d + 1) = Num(7 * TopUpSum(Len(unittrans), d + 1))

\* C17 amended: the same when no simulated day up to d has a negative
\* top-up total.
C17_TopUpRestoresCreditNoDebt ==
    Returned =>
        \A d \in DOMAIN dailyhistory :
            ToppedUpAfterStreak(d) /\ NoNegativeTotalUpTo(d) =>
                Status(d + 1) = Num(7 * TopUpSum(Len(unittrans), d + 1))

\* C17 witness: a zero top-up on the install day, a streak 0, -1, then one
\* week bought
C17_Witness ==
    /\ Returned
    /\ \E i \in 1..Len(unittrans) :
          unittrans[i].topupvalue = Weeks(0) /\ unittrans[i].timestamp.day = 0
    /\ ClaimedInstallDate = 0
    /\ Status(0) = Num(0) /\ Status(1) = Num(-1)
    /\ ToppedUpAfterStreak(1) /\ Status(2) = Num(7)

\* the unit's events with the top-up values before day inst set to zero
ZeroedBefore(inst) ==
    [i \in 1..Len(unittrans) |->
        IF unittrans[i].timestamp.day < inst /\ unittrans[i].topupvalue.kind = "num"
        THEN [unittrans[i] EXCEPT !.topupvalue = Weeks(0)]
        ELSE unittrans[i]]

\* C18 (pre-install top-ups are discarded): with an overridden installDate
\* both counters are 0 when the loop reaches its first row, and the statuses
\* from installDate on are those of the same events with every top-up value
\* before installDate set to zero.
C18_PreInstallTopUpsDiscarded ==
    installarg # NoDate =>
        /\ pc = "loop" /\ index <= installarg =>
              dayscreditremaining = 0 /\ continuousdaysooc = 0
        /\ Returned =>
              \A d \in DOMAIN dailyhistory :
                  d >= installarg =>
                      Status(d) =
                          unitdailystatus(ZeroedBefore(installarg), startdate,
                                          enddate, installarg)[d].unitstatus

\* C18 witness: a week bought on day 0, installed on day 2 without credit
C18_Witness ==
    /\ Returned
    /\ installarg = 2
    /\ \E i \in 1..Len(unittrans) :
          unittrans[i].topupvalue = Weeks(1) /\ unittrans[i].timestamp.day = 0
    /\ Status(0) = S /\ Status(1) = S
    /\ Status(2) = Num(0) /\ Status(3) = Num(-1)

\* C19 (loader calls are independent): every call of loadtransactionlog
\* that passes no droplist has the outcome, the columns and the rows of a
\* first call with the same successonly on the same files.
C19_LoaderCallsIndependent ==
    loaded.outcome # "none" =>
        loaded = loadtransactionlog(rawlog, loaded.successonly, DefaultDroplist)

\* C19, the first call alone: it returns, with Success dropped exactly when
\* successonly is set
C19_FirstCall ==
    loadcalls = 1 =>
        /\ loaded.outcome = "returned"
        /\ ("Success" \in loaded.columns) = ~loaded.successonly

====
